---- MODULE Spec2Model ----
(***************************************************************************)
(* Route resolution and connection lifecycle of the MCP Pointer browser   *)
(* extension.                                                              *)
(*                                                                         *)
(*   utils/config.ts              findMatchingRoute, extractHostFromUrl    *)
(*   background (unnamed/part_001) getEndpointForUrl, initialize(), the    *)
(*                                 onMessage, onChange, onRemoved listeners *)
(*   services/element-sender-service.ts  ElementSenderService              *)
(*                                                                         *)
(* Text (URLs, patterns, host names) is a sequence of one-character        *)
(* strings, so that String.includes, RegExp.test and URL parsing are       *)
(* computed on characters.                                                 *)
(***************************************************************************)
EXTENDS Integers, Sequences, FiniteSets, TLC

VARIABLES
  \* ---- route resolution (background script) ----
  url,            \* the URL handed to findMatchingRoute / getEndpointForUrl
  currentConfig,  \* part_001:8   let currentConfig: ExtensionConfig
  matched,        \* outcome of the last findMatchingRoute(url, currentConfig.routes) call
  endpoint,       \* outcome of the last getEndpointForUrl(url) call
  elementSender,  \* part_001:7   let elementSender: TRUE once it is constructed
  activeRoutes,   \* part_001:11  Map<number, RouteConfig | null>, by tab id
  tabs,           \* the ids of the browser's open tabs
  request,        \* the message the onMessage listener handles in this step
  response,       \* what the listener passes to sendResponse for it
  \* ---- ElementSenderService ----
  ws,             \* element-sender-service.ts:10  socket id held, 0 = null
  currentHost,    \* element-sender-service.ts:12  NullHost = null
  currentPort,    \* element-sender-service.ts:14  NullPort = null
  idleTimeout,    \* element-sender-service.ts:16  id of the idle timer held, 0 = null
  sends,          \* the sendElement calls so far (index = call id), each with its socket
  timers,         \* pending setTimeout timers, in creation order
  idleFires,      \* idle-teardown callbacks run since the most recent sendElement call
  \* ---- ConfigStorageService ----
  storage,        \* part_000:63  the value under STORAGE_KEY in chrome.storage.sync
  mutators        \* the calls of update/addRoute/updateRoute/removeRoute/toggleRoute so far

dispVars  == <<elementSender, activeRoutes, tabs>>
msgVars   == <<request, response>>
storeVars == <<storage, mutators>>
routeVars == <<url, currentConfig, matched, endpoint, dispVars, storeVars>>
connVars  == <<ws, currentHost, currentPort, idleTimeout, sends, timers, idleFires>>
vars      == <<url, currentConfig, matched, endpoint,
               elementSender, activeRoutes, tabs, request, response,
               ws, currentHost, currentPort, idleTimeout, sends, timers, idleFires,
               storage, mutators>>

(***************************************************************************)
(* Bounds                                                                  *)
(***************************************************************************)
MaxRules == 2     \* longest rule list drawn for currentConfig.routes
MaxSends == 3     \* sendElement calls in one behaviour
MaxMessages == 1  \* DOM_ELEMENT_POINTED messages handed to sendElement in one behaviour
MaxCalls == 2     \* calls of the stored-config mutators in one behaviour
Granularity == 1  \* clock ticks per 10000 ms

(***************************************************************************)
(* Text                                                                    *)
(***************************************************************************)
Letters == {"a", "b", "c", "d", "e", "f", "g", "h", "i", "j", "k", "l", "m",
            "n", "o", "p", "q", "r", "s", "t", "u", "v", "w", "x", "y", "z"}
Digits  == {"0", "1", "2", "3", "4", "5", "6", "7", "8", "9"}

\* String.prototype.includes: sub occurs in s as a contiguous substring.
Includes(s, sub) ==
  \E i \in 1..(Len(s) - Len(sub) + 1) : SubSeq(s, i, i + Len(sub) - 1) = sub

\* Index of the first occurrence of character c in s at or after position from,
\* Len(s) + 1 when there is none.
RECURSIVE IndexFrom(_, _, _)
IndexFrom(s, c, from) ==
  IF from > Len(s) THEN Len(s) + 1
  ELSE IF s[from] = c THEN from
  ELSE IndexFrom(s, c, from + 1)

\* Index of the first character of s, at or after from, that is in set cs.
RECURSIVE IndexOfAny(_, _, _)
IndexOfAny(s, cs, from) ==
  IF from > Len(s) THEN Len(s) + 1
  ELSE IF s[from] \in cs THEN from
  ELSE IndexOfAny(s, cs, from + 1)

\* String.prototype.trim() === '' : only white space.
IsBlank(s) == \A i \in 1..Len(s) : s[i] = " "

(***************************************************************************)
(* new RegExp(pattern).test(url), for patterns made of literal characters, *)
(* ".", a leading "^" and a trailing "$".  A "(" without its ")" or a "["  *)
(* without its "]" is a SyntaxError of the RegExp constructor.             *)
(***************************************************************************)
Count(s, c) == Cardinality({i \in 1..Len(s) : s[i] = c})

RegExpCompiles(pattern) ==
  /\ Count(pattern, "(") = Count(pattern, ")")
  /\ \A i \in 1..Len(pattern) :
       pattern[i] = "[" => \E j \in (i + 1)..Len(pattern) : pattern[j] = "]"

\* body (literals and ".") matches s at position i
BodyMatchesAt(body, s, i) ==
  /\ i + Len(body) - 1 <= Len(s)
  /\ \A k \in 1..Len(body) : body[k] = "." \/ body[k] = s[i + k - 1]

RegExpTest(pattern, s) ==
  IF ~RegExpCompiles(pattern) THEN "SyntaxError"
  ELSE
    LET anchoredStart == Len(pattern) >= 1 /\ pattern[1] = "^"
        p1 == IF anchoredStart THEN Tail(pattern) ELSE pattern
        anchoredEnd == Len(p1) >= 1 /\ p1[Len(p1)] = "$"
        body == IF anchoredEnd THEN SubSeq(p1, 1, Len(p1) - 1) ELSE p1
        starts == IF anchoredStart THEN {1} ELSE 1..(Len(s) + 1)
        hit == \E i \in starts :
                 /\ BodyMatchesAt(body, s, i)
                 /\ anchoredEnd => i + Len(body) - 1 = Len(s)
    IN IF hit THEN "true" ELSE "false"

(***************************************************************************)
(* utils/config.ts                                                         *)
(***************************************************************************)
Null   == [kind |-> "null"]
Thrown == [kind |-> "SyntaxError"]   \* an exception leaving the function

\* config.ts:46-58  the default configuration
DefaultHost == <<"l", "o", "c", "a", "l", "h", "o", "s", "t">>
DefaultPort == 7007

\* config.ts:70  if (!route.enabled) continue
SkipRoute_Never(route) == FALSE

SkipRoute(route) == ~route.enabled

\* config.ts:74-93 without the try/catch of lines 85-91: the SyntaxError escapes
RouteTest_NoCatch(u, route) ==
  CASE route.patternType = "port" ->
         IF Includes(u, <<":">> \o route.pattern) THEN "true" ELSE "false"
    [] route.patternType = "contains" ->
         IF Includes(u, route.pattern) THEN "true" ELSE "false"
    [] route.patternType = "regex" -> RegExpTest(route.pattern, u)

\* config.ts:72-93  the switch that sets `matches`
RouteTest(u, route) ==
  CASE route.patternType = "port" ->
         IF Includes(u, <<":">> \o route.pattern) THEN "true" ELSE "false"
    [] route.patternType = "contains" ->
         IF Includes(u, route.pattern) THEN "true" ELSE "false"
    [] route.patternType = "regex" ->
         LET r == RegExpTest(route.pattern, u)
         IN IF r = "SyntaxError" THEN "false" ELSE r

\* config.ts:69-100  the for loop, from rule i on
RECURSIVE MatchFrom(_, _, _)
MatchFrom(u, routes, i) ==
  IF i > Len(routes) THEN Null
  ELSE IF SkipRoute(routes[i]) THEN MatchFrom(u, routes, i + 1)
  ELSE LET m == RouteTest(u, routes[i])
       IN IF m = "SyntaxError" THEN Thrown
          ELSE IF m = "true" THEN routes[i]
          ELSE MatchFrom(u, routes, i + 1)

\* config.ts:68-101
findMatchingRoute(u, routes) == MatchFrom(u, routes, 1)

(***************************************************************************)
(* new URL(url).hostname for URLs  scheme ":" ["//" host [":" port]] path. *)
(* A text without a scheme, a special scheme (http, https, ws, wss, ftp)   *)
(* with an empty host, or a port that is not a number makes the URL        *)
(* constructor throw.  A URL without authority (about:blank) or with an    *)
(* empty one (file:///x) has the empty hostname.                           *)
(***************************************************************************)
ParseFailure == [kind |-> "TypeError"]

SpecialSchemes ==
  { <<"h", "t", "t", "p">>, <<"h", "t", "t", "p", "s">>, <<"w", "s">>,
    <<"w", "s", "s">>, <<"f", "t", "p">> }

\* Index of the first character of s at or after from that is not "/".
RECURSIVE SkipSlashes(_, _)
SkipSlashes(s, from) ==
  IF from <= Len(s) /\ s[from] = "/" THEN SkipSlashes(s, from + 1) ELSE from

UrlHostname(u) ==
  LET colon == IndexFrom(u, ":", 1)
      scheme == SubSeq(u, 1, colon - 1)
      schemeOk == /\ colon <= Len(u)
                  /\ Len(scheme) >= 1
                  /\ scheme[1] \in Letters
                  /\ \A i \in 1..Len(scheme) :
                       scheme[i] \in Letters \cup Digits \cup {"+", "-", "."}
      special == scheme \in SpecialSchemes
      rest == SubSeq(u, colon + 1, Len(u))
      \* a special scheme's authority follows any number of slashes
      hasAuthority == special \/ (Len(rest) >= 2 /\ rest[1] = "/" /\ rest[2] = "/")
      authStart == IF special THEN SkipSlashes(rest, 1) ELSE 3
      authEnd == IndexOfAny(rest, {"/", "?", "#"}, authStart)
      authority == SubSeq(rest, authStart, authEnd - 1)
      portColon == IndexFrom(authority, ":", 1)
      host == SubSeq(authority, 1, portColon - 1)
      port == SubSeq(authority, portColon + 1, Len(authority))
      portOk == \A i \in 1..Len(port) : port[i] \in Digits
  IN IF ~schemeOk THEN ParseFailure
     ELSE IF ~hasAuthority THEN [hostname |-> <<>>]
     ELSE IF ~portOk THEN ParseFailure
     ELSE IF host = <<>> /\ special THEN ParseFailure
     ELSE [hostname |-> host]

\* config.ts:115-122
extractHostFromUrl(u) ==
  LET parsed == UrlHostname(u)
  IN IF parsed = ParseFailure THEN Null ELSE parsed

(***************************************************************************)
(* background script (unnamed/part_001)                                    *)
(***************************************************************************)
NotCalled == [kind |-> "not called"]

\* part_001:7-8  a module variable that has not been assigned yet
Undefined == [kind |-> "undefined"]

\* tab ids; NoTab is a sender without a tab (sender.tab undefined, part_001:97)
Tabs == {1, 2}
NoTab == 0
\* part_001:11  activeRoutes.get(tabId) of a tab the map has no entry for
NoEntry == [kind |-> "no entry"]

\* a step that is not a run of the onMessage listener
Silent == request' = NotCalled /\ response' = NotCalled

\* the background script after initialize() has run, before any message
ScriptLoaded ==
  /\ elementSender = TRUE
  /\ activeRoutes = [t \in Tabs |-> NoEntry]
  /\ tabs = Tabs
  /\ request = NotCalled
  /\ response = NotCalled

\* null in the fields currentHost and currentPort (element-sender-service.ts:12-14):
\* a text that is no host name, a number that is no port
NullHost == <<"null">>
NullPort == 0 - 1

\* part_001:63 dropped: the rules are consulted whatever autoRouting says
getEndpointForUrl_IgnoreAutoRouting(u) ==
  LET extractedHost == extractHostFromUrl(u)
      host == IF extractedHost = Null \/ extractedHost.hostname = <<>>
              THEN currentConfig.websocket.host ELSE extractedHost.hostname
      matchedRoute == findMatchingRoute(u, currentConfig.routes)
  IN IF matchedRoute = Thrown THEN Thrown
     ELSE IF matchedRoute # Null
       THEN [host |-> host, port |-> matchedRoute.mcpPort, route |-> matchedRoute]
     ELSE [host |-> host, port |-> currentConfig.websocket.port, route |-> Null]

\* part_001:78 returning the default port although a rule matched
getEndpointForUrl_DefaultPortOnMatch(u) ==
  LET extractedHost == extractHostFromUrl(u)
      host == IF extractedHost = Null \/ extractedHost.hostname = <<>>
              THEN currentConfig.websocket.host ELSE extractedHost.hostname
      matchedRoute == IF currentConfig.autoRouting
                      THEN findMatchingRoute(u, currentConfig.routes) ELSE Null
  IN IF matchedRoute = Thrown THEN Thrown
     ELSE [host |-> host, port |-> currentConfig.websocket.port, route |-> matchedRoute]

\* part_001:61 taking the host of the default endpoint whatever the URL
getEndpointForUrl_DefaultHost(u) ==
  LET host == currentConfig.websocket.host
  IN IF ~currentConfig.autoRouting
       THEN [host |-> host, port |-> currentConfig.websocket.port, route |-> Null]
     ELSE LET matchedRoute == findMatchingRoute(u, currentConfig.routes)
          IN IF matchedRoute = Thrown THEN Thrown
             ELSE IF matchedRoute # Null
               THEN [host |-> host, port |-> matchedRoute.mcpPort, route |-> matchedRoute]
             ELSE [host |-> host, port |-> currentConfig.websocket.port, route |-> Null]

\* part_001:58-89.  `extractedHost || default`: null and the empty string both
\* fall back to the default host.
getEndpointForUrl(u) ==
  LET extractedHost == extractHostFromUrl(u)
      host == IF extractedHost = Null \/ extractedHost.hostname = <<>>
              THEN currentConfig.websocket.host ELSE extractedHost.hostname
  IN IF ~currentConfig.autoRouting
       THEN [host |-> host, port |-> currentConfig.websocket.port, route |-> Null]
     ELSE LET matchedRoute == findMatchingRoute(u, currentConfig.routes)
          IN IF matchedRoute = Thrown THEN Thrown
             ELSE IF matchedRoute # Null
               THEN [host |-> host, port |-> matchedRoute.mcpPort, route |-> matchedRoute]
             ELSE [host |-> host, port |-> currentConfig.websocket.port, route |-> Null]

(***************************************************************************)
(* Inputs of the route-resolution specification                            *)
(***************************************************************************)
Url_a8   == <<"h", "t", "t", "p", ":", "/", "/", "a", ":", "8", "/">>
Url_b    == <<"h", "t", "t", "p", ":", "/", "/", "b", "/", "a", ":", "8">>
Url_file == <<"f", "i", "l", "e", ":", "/", "/", "/", "a">>
Url_none == <<>>
Url_b9   == <<"h", "t", "t", "p", ":", "/", "/", "b", ":", "9", "/">>

Urls == {Url_a8, Url_b, Url_file, Url_none, Url_b9}

Patterns == { <<"8">>, <<"a">>, <<"(", "[">>, <<"^", "h", "t", "t", "p", ":", "/", "/", "a">> }
PatternTypes == {"port", "contains", "regex"}

RouteIds   == <<"r1", "r2", "r3", "r4">>
RouteNames == <<"Rule 1", "Rule 2", "Rule 3", "Rule 4">>

\* RouteConfig (config.ts:8-21); the rule at list position i
RuleAt(i, pattern, patternType, enabled) ==
  [id |-> RouteIds[i], name |-> RouteNames[i], pattern |-> pattern,
   patternType |-> patternType, mcpPort |-> 7020 + i, enabled |-> enabled]

RuleLists ==
  UNION { { [i \in 1..n |-> RuleAt(i, f[i][1], f[i][2], f[i][3])] :
              f \in [1..n -> Patterns \X PatternTypes \X BOOLEAN] } :
          n \in 0..MaxRules }

\* ExtensionConfig (config.ts:23-38), logger settings left out
Configs ==
  [enabled : {TRUE}, autoRouting : BOOLEAN,
   websocket : {[host |-> DefaultHost, port |-> DefaultPort]},
   routes : RuleLists]

\* config.ts:46-58
defaultConfig ==
  [enabled |-> TRUE, autoRouting |-> TRUE,
   websocket |-> [host |-> DefaultHost, port |-> DefaultPort], routes |-> <<>>]

(***************************************************************************)
(* Route resolution as a specification: the inputs are drawn in the        *)
(* initial state, the actions call the two functions.                      *)
(***************************************************************************)
\* part_000:64  result[STORAGE_KEY] is undefined
NothingStored == [kind |-> "nothing stored"]

\* nothing is stored and no mutator has been called
StoreIdle ==
  /\ storage = NothingStored
  /\ mutators = <<>>

ConnInit ==
  /\ ws = 0
  /\ currentHost = NullHost
  /\ currentPort = NullPort
  /\ idleTimeout = 0
  /\ sends = <<>>
  /\ timers = <<>>
  /\ idleFires = 0

RouteInit ==
  /\ url \in Urls
  /\ currentConfig \in Configs
  /\ matched = NotCalled
  /\ endpoint = NotCalled
  /\ ScriptLoaded
  /\ ConnInit
  /\ StoreIdle

\* a call of findMatchingRoute, the first or a later one
CallMatch ==
  /\ matched' = findMatchingRoute(url, currentConfig.routes)
  /\ UNCHANGED storeVars
  /\ UNCHANGED <<url, currentConfig, endpoint>>
  /\ UNCHANGED dispVars
  /\ UNCHANGED msgVars
  /\ UNCHANGED connVars

\* getEndpointForUrl with part_001:104 moved into it: the resolver records the
\* route it found for tab 1
CallResolve_TracksRoute ==
  /\ endpoint' = getEndpointForUrl(url)
  /\ activeRoutes' = [activeRoutes EXCEPT ![1] = getEndpointForUrl(url).route]
  /\ UNCHANGED storeVars
  /\ UNCHANGED <<url, currentConfig, matched>>
  /\ UNCHANGED <<elementSender, tabs, request, response>>
  /\ UNCHANGED connVars

\* a call of getEndpointForUrl, the first or a later one
CallResolve ==
  /\ endpoint' = getEndpointForUrl(url)
  /\ UNCHANGED storeVars
  /\ UNCHANGED <<url, currentConfig, matched>>
  /\ UNCHANGED dispVars
  /\ UNCHANGED msgVars
  /\ UNCHANGED connVars

RouteNext == CallMatch \/ CallResolve

SpecRoute == RouteInit /\ [][RouteNext]_vars

(***************************************************************************)
(* Claims on route resolution                                              *)
(***************************************************************************)
\* The pattern test of a rule, as the rule's documentation states it.
PatternSucceeds(u, r) ==
  \/ r.patternType = "port" /\ Includes(u, <<":">> \o r.pattern)
  \/ r.patternType = "contains" /\ Includes(u, r.pattern)
  \/ r.patternType = "regex" /\ RegExpTest(r.pattern, u) = "true"

Eligible(u, rs) == {i \in 1..Len(rs) : rs[i].enabled /\ PatternSucceeds(u, rs[i])}

InvalidRegex(r) == r.patternType = "regex" /\ ~RegExpCompiles(r.pattern)

ValidRule(r) == ~InvalidRegex(r)

\* C1: match returns the first rule in list order that is enabled and whose
\* pattern test succeeds, and none when no enabled rule's test succeeds.
C1_FirstEnabledMatch ==
  matched # NotCalled =>
    LET rs == currentConfig.routes
        el == Eligible(url, rs)
    IN IF el = {} THEN matched = Null
       ELSE matched = rs[CHOOSE i \in el : \A j \in el : i <= j]

\* C1 witness: a disabled first rule whose pattern matches is passed over and
\* the second rule is returned.
C1_Witness ==
  /\ matched # NotCalled
  /\ Len(currentConfig.routes) >= 2
  /\ ~currentConfig.routes[1].enabled
  /\ PatternSucceeds(url, currentConfig.routes[1])
  /\ matched = currentConfig.routes[2]

\* C2: a regex rule whose pattern does not compile never makes match fail: the
\* call returns, never returns that rule, and returns what it returns for the
\* list without the rules that do not compile.
C2_InvalidRegexSkipped ==
  (matched # NotCalled /\ \E i \in 1..Len(currentConfig.routes) :
                             InvalidRegex(currentConfig.routes[i]))
    => /\ matched # Thrown
       /\ matched # Null => ValidRule(matched)
       /\ \/ matched = Null /\ Eligible(url, currentConfig.routes) = {}
          \/ /\ matched # Null
             /\ \E i \in Eligible(url, currentConfig.routes) :
                  /\ matched = currentConfig.routes[i]
                  /\ \A j \in 1..(i - 1) :
                       j \notin Eligible(url, currentConfig.routes)

\* C2 witness: the first rule is an enabled regex rule that does not compile and
\* the rule after it is returned.
C2_Witness ==
  /\ matched # NotCalled
  /\ Len(currentConfig.routes) >= 2
  /\ currentConfig.routes[1].enabled
  /\ InvalidRegex(currentConfig.routes[1])
  /\ matched = currentConfig.routes[2]

\* C3: with autoRouting false, resolve returns the default port and no rule,
\* whatever rules would match.
C3_AutoRoutingOff ==
  (endpoint # NotCalled /\ ~currentConfig.autoRouting)
    => /\ endpoint # Thrown
       /\ endpoint.port = currentConfig.websocket.port
       /\ endpoint.route = Null

\* C3 witness: autoRouting is off, an enabled rule matches the URL, and resolve
\* has returned.
C3_Witness ==
  /\ endpoint # NotCalled
  /\ ~currentConfig.autoRouting
  /\ Eligible(url, currentConfig.routes) # {}

\* C4: with autoRouting true, resolve returns the matched rule and its mcpPort,
\* or the default port and no rule when match returns none.
C4_AutoRoutingOn ==
  (endpoint # NotCalled /\ currentConfig.autoRouting)
    => LET m == findMatchingRoute(url, currentConfig.routes)
       IN /\ endpoint # Thrown
          /\ m # Null => endpoint.port = m.mcpPort /\ endpoint.route = m
          /\ m = Null => /\ endpoint.port = currentConfig.websocket.port
                         /\ endpoint.route = Null

\* C4 witness: resolve returned the second rule of the list and its port.
C4_Witness ==
  /\ endpoint # NotCalled
  /\ currentConfig.autoRouting
  /\ Len(currentConfig.routes) >= 2
  /\ endpoint.route = currentConfig.routes[2]
  /\ endpoint.port = currentConfig.routes[2].mcpPort
  /\ endpoint.port # currentConfig.websocket.port

\* C5 as stated: the host is the hostname parsed from the URL, and the default
\* host only when the URL cannot be parsed.
C5_HostOnlyDefaultWhenUnparseable ==
  endpoint # NotCalled =>
    /\ endpoint # Thrown
    /\ endpoint.host = IF UrlHostname(url) = ParseFailure
                       THEN currentConfig.websocket.host
                       ELSE UrlHostname(url).hostname

\* C5 amended: the host is the hostname parsed from the URL, and the default
\* host exactly when the URL cannot be parsed or its hostname is empty; it is a
\* function of the URL and the default host alone.
C5_HostFromUrl ==
  endpoint # NotCalled =>
    /\ endpoint # Thrown
    /\ endpoint.host = IF UrlHostname(url) = ParseFailure
                          \/ UrlHostname(url).hostname = <<>>
                       THEN currentConfig.websocket.host
                       ELSE UrlHostname(url).hostname

\* C5 witness: a rule matched and the host is the URL's own hostname.
C5_Witness ==
  /\ endpoint # NotCalled
  /\ endpoint.route # Null
  /\ UrlHostname(url) # ParseFailure
  /\ endpoint.host = UrlHostname(url).hostname
  /\ endpoint.host # currentConfig.websocket.host

IDLE_DURATION == 10000
CONNECTION_TIMEOUT == 10000

TickMs == 10000 \div Granularity

\* The manager's fields and the calls, sockets and timers around it, as one value
\* that the methods below transform.
Manager ==
  [ws |-> ws, currentHost |-> currentHost, currentPort |-> currentPort,
   idleTimeout |-> idleTimeout, sends |-> sends, timers |-> timers]

RemoveTimer(ts, kind, id) ==
  SelectSeq(ts, LAMBDA t : ~(t.kind = kind /\ t.id = id))

\* statusCallback?.(status)
Emit(m, n, status) == [m EXCEPT !.sends[n].statuses = Append(@, status)]

\* the call returns
Return(m, n) == [m EXCEPT !.sends[n].pc = "done"]

\* element-sender-service.ts:188-193
clearIdleTimer(m) ==
  IF m.idleTimeout # 0
  THEN [m EXCEPT !.timers = RemoveTimer(@, "idle", m.idleTimeout),
                 !.idleTimeout = 0]
  ELSE m

\* element-sender-service.ts:195-203 without lines 197-200: the socket is kept
disconnect_KeepSocket(m) == clearIdleTimer(m)

\* element-sender-service.ts:195-203 without line 196: the idle timer is kept
disconnect_KeepIdleTimer(m) ==
  IF m.ws # 0
  THEN [m EXCEPT !.sends[m.ws].sock = "CLOSED", !.ws = 0]
  ELSE m

\* element-sender-service.ts:195-203
disconnect(m) ==
  LET m1 == clearIdleTimer(m)
  IN IF m1.ws # 0
     THEN [m1 EXCEPT !.sends[m1.ws].sock = "CLOSED", !.ws = 0]
     ELSE m1

\* element-sender-service.ts:205-207
isConnected(m) == m.ws # 0 /\ m.sends[m.ws].sock = "OPEN"

\* element-sender-service.ts:181-186: the handle is overwritten, a timer it held
\* stays pending
startIdleTimer(m, n) ==
  [m EXCEPT !.timers = Append(@, [kind |-> "idle", id |-> n,
                                  remaining |-> IDLE_DURATION]),
            !.idleTimeout = n]

\* element-sender-service.ts:56  this.ws!.send(...) on a socket: an open socket
\* transmits the frame, any other buffers it until it opens
wsSend(m, n) ==
  IF m.sends[m.ws].sock = "OPEN"
  THEN [m EXCEPT !.sends[m.ws].frames = @ \cup {n}]
  ELSE [m EXCEPT !.sends[m.ws].queue = @ \cup {n}]

\* the elements sendElement is called with: one JSON.stringify serializes and one
\* it throws on (a cyclic structure)
Element == "element"
Cyclic == "cyclic"
\* element-sender-service.ts:56  JSON.stringify(message) returns
Serializable(element) == element # Cyclic

\* element-sender-service.ts:44-64 with line 60 moved out of the try block: SENT
\* is reported after the catch as well
Transmit_SentAfterError(m, n) ==
  LET m1 == startIdleTimer(m, n)
      m2 == Emit(m1, n, "SENDING")
  IN IF m2.ws = 0 \/ ~Serializable(m2.sends[n].element)
     THEN Return(Emit(Emit(m2, n, "ERROR"), n, "SENT"), n)
     ELSE Return(Emit(Emit(wsSend(m2, n), n, "SENT"), n, "SENT"), n)

\* element-sender-service.ts:44-64 with a disconnect() added to the catch block
Transmit_DisconnectOnError(m, n) ==
  LET m1 == startIdleTimer(m, n)
      m2 == Emit(m1, n, "SENDING")
  IN IF m2.ws = 0 \/ ~Serializable(m2.sends[n].element)
     THEN Return(disconnect(Emit(m2, n, "ERROR")), n)
     ELSE Return(Emit(wsSend(m2, n), n, "SENT"), n)

\* element-sender-service.ts:44-64: sendElement after ensureConnection returned
\* true.  this.ws!.send on a null ws throws a TypeError and JSON.stringify throws
\* one on an element it cannot serialize; the catch reports either.
Transmit(m, n) ==
  LET m1 == startIdleTimer(m, n)
      m2 == Emit(m1, n, "SENDING")
  IN IF m2.ws = 0 \/ ~Serializable(m2.sends[n].element)
     THEN Return(Emit(m2, n, "ERROR"), n)
     ELSE Return(Emit(wsSend(m2, n), n, "SENT"), n)

InvalidHost(host) == host = <<>> \/ IsBlank(host)
\* element-sender-service.ts:68 and 73
InvalidPort(port) == port = 0 \/ port <= 0 \/ port > 65535

\* element-sender-service.ts:67-98, returning the new state and the boolean
handleConnectionChange(m, n, host, port) ==
  IF InvalidHost(host) \/ InvalidPort(port)
  THEN [ok |-> FALSE, m |-> Emit(m, n, "ERROR")]
  ELSE IF m.currentHost = NullHost /\ m.currentPort = NullPort
  THEN [ok |-> TRUE, m |-> [m EXCEPT !.currentHost = host, !.currentPort = port]]
  ELSE IF m.currentHost # host \/ m.currentPort # port
  THEN [ok |-> TRUE,
        m |-> [disconnect(m) EXCEPT !.currentHost = host, !.currentPort = port]]
  ELSE [ok |-> TRUE, m |-> m]

\* element-sender-service.ts:136-159 without the setTimeout of lines 148-150
waitForConnection_NoTimeout(m, n) ==
  [m EXCEPT !.sends[n].sock = "CONNECTING",
            !.ws = n,
            !.sends[n].pc = "waiting"]

\* element-sender-service.ts:136-159 with 111-119: the socket is created
\* Connecting, so waitForConnection arms the timeout and the call waits
waitForConnection(m, n) ==
  [m EXCEPT !.sends[n].sock = "CONNECTING",
            !.ws = n,
            !.timers = Append(@, [kind |-> "conn", id |-> n,
                                  remaining |-> CONNECTION_TIMEOUT]),
            !.sends[n].pc = "waiting"]

\* element-sender-service.ts:100-134 up to the await, then 42-64 when no await
\* is needed
ensureConnection(m, n, host, port) ==
  LET h == handleConnectionChange(m, n, host, port)
  IN IF ~h.ok THEN Return(h.m, n)
     ELSE IF ~isConnected(h.m)
       THEN waitForConnection(Emit(h.m, n, "CONNECTING"), n)
     ELSE Transmit(Emit(h.m, n, "CONNECTED"), n)

\* element-sender-service.ts:30-42
sendElement(m, n, host, port) ==
  ensureConnection(clearIdleTimer(m), n, host, port)

NewCall(element, host, port) ==
  [element |-> element, host |-> host, port |-> port, pc |-> "running", statuses |-> <<>>,
   sock |-> "NONE", queue |-> {}, frames |-> {}]

Install(m) ==
  /\ ws' = m.ws
  /\ currentHost' = m.currentHost
  /\ currentPort' = m.currentPort
  /\ idleTimeout' = m.idleTimeout
  /\ sends' = m.sends
  /\ timers' = m.timers

HostA == <<"a">>
HostB == <<"b">>

\* the (element, host, port) triples sendElement is called with
SendInputs ==
  { <<Element, HostA, 7007>>, <<Element, HostB, 7022>>, <<Cyclic, HostA, 7007>>,
    <<Element, <<>>, 7007>>, <<Element, <<" ">>, 7007>>, <<Element, HostA, 0>>,
    <<Element, HostA, 65536>> }

\* a call of sendElement(element, host, port, statusCallback)
Send(element, host, port) ==
  /\ Len(sends) < MaxSends
  /\ LET n == Len(sends) + 1
         m == [Manager EXCEPT !.sends = Append(@, NewCall(element, host, port))]
     IN Install(sendElement(m, n, host, port))
  /\ idleFires' = 0
  /\ UNCHANGED routeVars
  /\ Silent

\* the socket of call s opens: it transmits what it buffered, then its open
\* listeners run (152-155), and the call waiting on it goes on (130-133, 42-64)
SocketOpen(s) ==
  /\ sends[s].sock = "CONNECTING"
  /\ LET m1 == [Manager EXCEPT !.sends[s].sock = "OPEN",
                               !.sends[s].frames = @ \cup sends[s].queue,
                               !.sends[s].queue = {}]
     IN IF sends[s].pc = "waiting"
        THEN Install(Transmit(Emit([m1 EXCEPT !.timers = RemoveTimer(@, "conn", s)],
                                   s, "CONNECTED"), s))
        ELSE Install(m1)
  /\ UNCHANGED idleFires
  /\ UNCHANGED routeVars
  /\ Silent

\* the server end of an open socket goes away: the ReconnectingWebSocket is
\* Connecting again and reopens by itself (111-117)
SocketDrop(s) ==
  /\ sends[s].sock = "OPEN"
  /\ sends' = [sends EXCEPT ![s].sock = "CONNECTING"]
  /\ UNCHANGED <<ws, currentHost, currentPort, idleTimeout, timers, idleFires>>
  /\ UNCHANGED routeVars
  /\ Silent

\* timer i is due and no timer created before it is
Due(i) ==
  /\ timers[i].remaining = 0
  /\ \A j \in 1..(i - 1) : timers[j].remaining > 0

\* element-sender-service.ts:148-150 then 123-133 without lines 125-126: after the
\* ERROR the call goes on as if connected
ConnectionTimeout_FallThrough(i) ==
  /\ Due(i)
  /\ timers[i].kind = "conn"
  /\ LET s == timers[i].id
         m1 == [Manager EXCEPT !.timers = RemoveTimer(@, "conn", s)]
     IN Install(Transmit(Emit(Emit(m1, s, "ERROR"), s, "CONNECTED"), s))
  /\ UNCHANGED idleFires
  /\ UNCHANGED routeVars
  /\ Silent

\* element-sender-service.ts:148-150 then 123-127: the connection timeout of
\* call s expires
ConnectionTimeout(i) ==
  /\ Due(i)
  /\ timers[i].kind = "conn"
  /\ LET s == timers[i].id
         m1 == [Manager EXCEPT !.timers = RemoveTimer(@, "conn", s)]
     IN Install(Return(disconnect(Emit(m1, s, "ERROR")), s))
  /\ UNCHANGED idleFires
  /\ UNCHANGED routeVars
  /\ Silent

\* element-sender-service.ts:182-185: an idle timer expires
IdleTimeout(i) ==
  /\ Due(i)
  /\ timers[i].kind = "idle"
  /\ LET m1 == [Manager EXCEPT !.timers = RemoveTimer(@, "idle", timers[i].id)]
     IN Install(disconnect(m1))
  /\ idleFires' = idleFires + 1
  /\ UNCHANGED routeVars
  /\ Silent

MinRemaining == CHOOSE r \in {timers[i].remaining : i \in 1..Len(timers)} :
                  \A i \in 1..Len(timers) : r <= timers[i].remaining

\* time passes, by TickMs or up to the next timer that is due
Tick ==
  /\ timers # <<>>
  /\ MinRemaining > 0
  /\ LET d == IF TickMs < MinRemaining THEN TickMs ELSE MinRemaining
     IN timers' = [i \in 1..Len(timers) |->
                     [timers[i] EXCEPT !.remaining = @ - d]]
  /\ UNCHANGED <<ws, currentHost, currentPort, idleTimeout, sends, idleFires>>
  /\ UNCHANGED routeVars
  /\ Silent

Init ==
  /\ url = <<>>
  /\ currentConfig = defaultConfig
  /\ matched = NotCalled
  /\ endpoint = NotCalled
  /\ ScriptLoaded
  /\ ConnInit
  /\ StoreIdle

Next ==
  \/ \E in \in SendInputs : Send(in[1], in[2], in[3])
  \/ \E s \in 1..Len(sends) : SocketOpen(s)
  \/ \E s \in 1..Len(sends) : SocketDrop(s)
  \/ \E i \in 1..Len(timers) : ConnectionTimeout(i)
  \/ \E i \in 1..Len(timers) : IdleTimeout(i)
  \/ Tick

Spec == Init /\ [][Next]_vars

\* the browser's timers: time passes and a timer that is due runs its callback
TimePasses ==
  \/ Tick
  \/ \E i \in 1..Len(timers) : ConnectionTimeout(i)
  \/ \E i \in 1..Len(timers) : IdleTimeout(i)

\* the event loop runs every timer that is due; whether a socket ever opens is
\* up to the network and the server
FairSpec == Spec /\ WF_vars(TimePasses)

(***************************************************************************)
(* background script (unnamed/part_001): initialize(), the onChange        *)
(* callback, the onMessage listener and the tabs.onRemoved listener.       *)
(*                                                                         *)
(* The listeners are registered when the script is evaluated; initialize() *)
(* is started then and assigns currentConfig and elementSender when the    *)
(* configuration has been read.  A run of a listener is one step.  The     *)
(* listener calls sendElement without awaiting it, so the step holds what  *)
(* sendElement does up to its wait for the socket.                         *)
(***************************************************************************)
\* a listener run that ended in an uncaught TypeError: sendResponse not called
Uncaught == [kind |-> "uncaught"]

DigitOf(d) == <<"0", "1", "2", "3", "4", "5", "6", "7", "8", "9">>[d + 1]

\* Number.prototype.toString of a non-negative integer below 10^6: its decimal
\* digits, the most significant first
ToDigits(n) ==
  LET k == CHOOSE k \in 1..6 : n < 10^k /\ (k = 1 \/ n >= 10^(k - 1))
  IN [i \in 1..k |-> DigitOf((n \div 10^(k - i)) % 10)]

\* part_001:142  `${host}:${port}`
EndpointText(host, port) == host \o <<":">> \o ToDigits(port)

\* the URLs of the pages that messages come from
DispatchUrls == {Url_a8, Url_file}

\* a configuration with one rule, for port 8
RoutedConfig ==
  [enabled |-> TRUE, autoRouting |-> TRUE,
   websocket |-> [host |-> DefaultHost, port |-> DefaultPort],
   routes |-> <<RuleAt(1, <<"8">>, "port", TRUE)>>]

\* the configurations the storage holds at one time or another
DispatchConfigs ==
  {defaultConfig, RoutedConfig, [RoutedConfig EXCEPT !.enabled = FALSE]}

\* part_001:14-18  initialize() after the await: the configuration read is
\* assigned and the service constructed
Initialized(config) ==
  /\ elementSender = FALSE
  /\ currentConfig' = config
  /\ elementSender' = TRUE
  /\ UNCHANGED storeVars
  /\ UNCHANGED <<url, matched, endpoint, activeRoutes, tabs>>
  /\ Silent
  /\ UNCHANGED connVars

\* part_001:38-52  the onChange callback
ConfigChanged(newConfig) ==
  /\ newConfig # currentConfig
  /\ currentConfig' = newConfig
  /\ UNCHANGED storeVars
  /\ UNCHANGED <<url, matched, endpoint, dispVars>>
  /\ Silent
  /\ UNCHANGED connVars

\* part_001:142  route?.name || 'default'
RouteName(route) ==
  IF route = Null \/ route.name = "" THEN "default" ELSE route.name

\* the listener as it would be if the tab's tracked route were consulted
PointedMessage_Sticky(tab, u) ==
  /\ tab \in tabs \cup {NoTab}
  /\ Len(sends) < MaxMessages
  /\ request' = [type |-> "DOM_ELEMENT_POINTED", tab |-> tab, url |-> u]
  /\ IF currentConfig = Undefined
     THEN /\ response' = Uncaught
          /\ UNCHANGED activeRoutes
          /\ UNCHANGED connVars
     ELSE \E e \in {IF tab # NoTab /\ activeRoutes[tab] \notin {NoEntry, Null}
                    THEN [getEndpointForUrl(u) EXCEPT
                            !.route = activeRoutes[tab],
                            !.port = activeRoutes[tab].mcpPort]
                    ELSE getEndpointForUrl(u)} :
             /\ activeRoutes' = IF tab # NoTab
                                THEN [activeRoutes EXCEPT ![tab] = e.route]
                                ELSE activeRoutes
             /\ IF elementSender = FALSE
                THEN /\ response' = Uncaught
                     /\ UNCHANGED connVars
                ELSE /\ LET n == Len(sends) + 1
                            m == [Manager EXCEPT
                                    !.sends = Append(@, NewCall(Element, e.host, e.port))]
                        IN Install(sendElement(m, n, e.host, e.port))
                     /\ idleFires' = 0
                     /\ response' = [success |-> TRUE,
                                     route |-> RouteName(e.route),
                                     endpoint |-> EndpointText(e.host, e.port)]
  /\ UNCHANGED storeVars
  /\ UNCHANGED <<url, currentConfig, matched, endpoint, elementSender, tabs>>

\* part_001:94-143  the listener on a DOM_ELEMENT_POINTED message with data,
\* sent from tab `tab` (or from no tab) by a page at URL u.  Reading
\* currentConfig or elementSender before initialize() has assigned it throws.
PointedMessage(tab, u) ==
  /\ tab \in tabs \cup {NoTab}
  /\ Len(sends) < MaxMessages
  /\ request' = [type |-> "DOM_ELEMENT_POINTED", tab |-> tab, url |-> u]
  /\ IF currentConfig = Undefined
     THEN /\ response' = Uncaught
          /\ UNCHANGED activeRoutes
          /\ UNCHANGED connVars
     ELSE \E e \in {getEndpointForUrl(u)} :
             /\ activeRoutes' = IF tab # NoTab
                                THEN [activeRoutes EXCEPT ![tab] = e.route]
                                ELSE activeRoutes
             /\ IF elementSender = FALSE
                THEN /\ response' = Uncaught
                     /\ UNCHANGED connVars
                ELSE /\ LET n == Len(sends) + 1
                            m == [Manager EXCEPT
                                    !.sends = Append(@, NewCall(Element, e.host, e.port))]
                        IN Install(sendElement(m, n, e.host, e.port))
                     /\ idleFires' = 0
                     /\ response' = [success |-> TRUE,
                                     route |-> RouteName(e.route),
                                     endpoint |-> EndpointText(e.host, e.port)]
  /\ UNCHANGED storeVars
  /\ UNCHANGED <<url, currentConfig, matched, endpoint, elementSender, tabs>>

\* part_001:146-157  the listener on GET_ACTIVE_ROUTE
GetActiveRoute(tabId) ==
  /\ request' = [type |-> "GET_ACTIVE_ROUTE", tabId |-> tabId]
  /\ LET route == IF tabId # NoTab THEN activeRoutes[tabId] ELSE Null
     IN response' =
          IF currentConfig = Undefined THEN Uncaught
          ELSE [route |-> IF route = NoEntry \/ route = Null THEN Null
                          ELSE [name |-> route.name, mcpPort |-> route.mcpPort],
                config |-> [enabled |-> currentConfig.enabled,
                            autoRouting |-> currentConfig.autoRouting,
                            routeCount |-> Len(currentConfig.routes)]]
  /\ UNCHANGED storeVars
  /\ UNCHANGED <<url, currentConfig, matched, endpoint, elementSender,
                 activeRoutes, tabs>>
  /\ UNCHANGED connVars

\* part_001:160-168 with part_001:104 added: the test records its route for tab 1
TestRoute_TracksRoute(u) ==
  /\ request' = [type |-> "TEST_ROUTE", url |-> u]
  /\ response' =
       IF currentConfig = Undefined THEN Uncaught
       ELSE LET e == getEndpointForUrl(u)
            IN [matched |-> e.route # Null,
                route |-> IF e.route = Null THEN Null
                          ELSE [name |-> e.route.name, pattern |-> e.route.pattern],
                endpoint |-> [host |-> e.host, port |-> e.port]]
  /\ activeRoutes' = IF currentConfig = Undefined THEN activeRoutes
                     ELSE [activeRoutes EXCEPT ![1] = getEndpointForUrl(u).route]
  /\ UNCHANGED storeVars
  /\ UNCHANGED <<url, currentConfig, matched, endpoint, elementSender, tabs>>
  /\ UNCHANGED connVars

\* part_001:160-168  the listener on TEST_ROUTE
TestRoute(u) ==
  /\ request' = [type |-> "TEST_ROUTE", url |-> u]
  /\ response' =
       IF currentConfig = Undefined THEN Uncaught
       ELSE LET e == getEndpointForUrl(u)
            IN [matched |-> e.route # Null,
                route |-> IF e.route = Null THEN Null
                          ELSE [name |-> e.route.name, pattern |-> e.route.pattern],
                endpoint |-> [host |-> e.host, port |-> e.port]]
  /\ UNCHANGED storeVars
  /\ UNCHANGED <<url, currentConfig, matched, endpoint, elementSender,
                 activeRoutes, tabs>>
  /\ UNCHANGED connVars

\* part_001:197-199 without line 198: the entry of the closed tab is kept
TabRemoved_KeepsEntry(tabId) ==
  /\ tabId \in tabs
  /\ tabs' = tabs \ {tabId}
  /\ UNCHANGED activeRoutes
  /\ UNCHANGED storeVars
  /\ UNCHANGED <<url, currentConfig, matched, endpoint, elementSender>>
  /\ Silent
  /\ UNCHANGED connVars

\* part_001:197-199  the tabs.onRemoved listener: tab `tabId` has been closed
TabRemoved(tabId) ==
  /\ tabId \in tabs
  /\ tabs' = tabs \ {tabId}
  /\ activeRoutes' = [activeRoutes EXCEPT ![tabId] = NoEntry]
  /\ UNCHANGED storeVars
  /\ UNCHANGED <<url, currentConfig, matched, endpoint, elementSender>>
  /\ Silent
  /\ UNCHANGED connVars

\* the script has been evaluated and initialize() has been started
DispatchInit ==
  /\ url = <<>>
  /\ currentConfig = Undefined
  /\ matched = NotCalled
  /\ endpoint = NotCalled
  /\ elementSender = FALSE
  /\ activeRoutes = [t \in Tabs |-> NoEntry]
  /\ tabs = Tabs
  /\ request = NotCalled
  /\ response = NotCalled
  /\ ConnInit
  /\ StoreIdle

DispatchNext ==
  \/ \E config \in DispatchConfigs : Initialized(config)
  \/ \E config \in DispatchConfigs : ConfigChanged(config)
  \/ \E tab \in Tabs \cup {NoTab} : \E u \in DispatchUrls : PointedMessage(tab, u)
  \/ \E tabId \in Tabs \cup {NoTab} : GetActiveRoute(tabId)
  \/ \E u \in DispatchUrls : TestRoute(u)
  \/ \E tabId \in Tabs : TabRemoved(tabId)
  \/ \E s \in 1..Len(sends) : SocketOpen(s)
  \/ \E s \in 1..Len(sends) : SocketDrop(s)
  \/ \E i \in 1..Len(timers) : ConnectionTimeout(i)
  \/ \E i \in 1..Len(timers) : IdleTimeout(i)
  \/ Tick

SpecDispatch == DispatchInit /\ [][DispatchNext]_vars

(***************************************************************************)
(* Claims on the connection lifecycle                                      *)
(***************************************************************************)
Calls == 1..Len(sends)
Sockets == {s \in Calls : sends[s].sock # "NONE"}
Unclosed == {s \in Sockets : sends[s].sock \in {"CONNECTING", "OPEN"}}
SameTarget(a, b) == sends[a].host = sends[b].host /\ sends[a].port = sends[b].port
Last(q) == q[Len(q)]
IsPrefix(p, q) == Len(p) <= Len(q) /\ SubSeq(q, 1, Len(p)) = p

FullOrder == <<"CONNECTING", "CONNECTED", "SENDING", "SENT">>

\* C6: once a socket for a different target B has been created after a socket
\* for target A, A's socket is closed, and every frame a socket has transmitted
\* comes from a send to that socket's own target.
C6_SwitchClosesOldSocket ==
  /\ \A a \in Sockets : \A b \in Sockets :
       (a < b /\ ~SameTarget(a, b)) => sends[a].sock = "CLOSED"
  /\ \A a \in Sockets : \A f \in sends[a].frames : SameTarget(f, a)

\* C7: at most one socket has been created and not yet closed.
C7_AtMostOneSocket == Cardinality(Unclosed) <= 1

\* C8 as stated: the statuses of a send are CONNECTING, CONNECTED, SENDING, SENT
\* or a prefix of that order ended by one ERROR.
C8_FixedOrder ==
  \A s \in Calls :
    LET st == sends[s].statuses
    IN /\ \/ IsPrefix(st, FullOrder)
          \/ /\ st # <<>>
             /\ Last(st) = "ERROR"
             /\ IsPrefix(SubSeq(st, 1, Len(st) - 1), FullOrder)
             /\ Len(st) <= Len(FullOrder)
       /\ sends[s].pc = "done" => st # <<>> /\ Last(st) \in {"SENT", "ERROR"}

\* C8 amended: the statuses of a send are CONNECTING, CONNECTED, SENDING, SENT in
\* this order, CONNECTING being left out by a send that finds the held socket
\* open, or a prefix of that ended by one ERROR; a finished send ends with SENT
\* or ERROR and nothing follows either.
C8_OrderWithReuse ==
  \A s \in Calls :
    LET st == sends[s].statuses
        InOrder(q) == IsPrefix(q, FullOrder) \/ IsPrefix(q, Tail(FullOrder))
    IN /\ \/ InOrder(st)
          \/ /\ st # <<>>
             /\ Last(st) = "ERROR"
             /\ InOrder(SubSeq(st, 1, Len(st) - 1))
             /\ "SENT" \notin {st[i] : i \in 1..Len(st)}
       /\ sends[s].pc = "done" => st # <<>> /\ Last(st) \in {"SENT", "ERROR"}

\* C8 witness: a send that opened the connection, a later one that reused the open
\* socket, and one that timed out.
C8_Witness ==
  \E r \in Calls : \E s \in Calls : \E t \in Calls :
    /\ r < s
    /\ sends[r].statuses = FullOrder
    /\ sends[s].statuses = <<"CONNECTED", "SENDING", "SENT">>
    /\ sends[t].statuses = <<"CONNECTING", "ERROR">>

\* the step in which the connection timeout of call s expires
TimesOut(s) ==
  /\ s \in Calls
  /\ sends[s].pc = "waiting"
  /\ sends'[s].pc = "done"
  /\ sends'[s].statuses = Append(sends[s].statuses, "ERROR")

\* a step that is a sendElement call with a valid host and port
ValidCall ==
  /\ Len(sends') = Len(sends) + 1
  /\ ~InvalidHost(Last(sends').host)
  /\ ~InvalidPort(Last(sends').port)

C10_IdleTeardownOnce ==
  (\E s \in Calls : sends[s].statuses # <<>> /\ Last(sends[s].statuses) = "SENT")
    => idleFires <= 1

\* a step that is a sendElement call with an empty host or a port outside
\* [1, 65535]
RejectedCall ==
  /\ Len(sends') = Len(sends) + 1
  /\ InvalidHost(Last(sends').host) \/ InvalidPort(Last(sends').port)

\* C11: a send with an empty host or a port outside [1, 65535] gets ERROR at once
\* and leaves the held socket, the current target and the pending idle timer as
\* they were.
C11_RejectedSendTouchesNothing ==
  [][ RejectedCall =>
        /\ Last(sends').statuses = <<"ERROR">>
        /\ Last(sends').pc = "done"
        /\ SubSeq(sends', 1, Len(sends)) = sends
        /\ ws' = ws
        /\ currentHost' = currentHost
        /\ currentPort' = currentPort
        /\ idleTimeout' = idleTimeout
        /\ timers' = timers
    ]_vars

\* call s got ERROR for a connection timeout
TimedOut(s) == IsPrefix(<<"CONNECTING", "ERROR">>, sends[s].statuses)

\* C12: a send that got ERROR for a connection timeout is not delivered late: no
\* socket has transmitted its payload and none holds it to transmit on opening.
C12_TimedOutNeverTransmitted ==
  \A s \in Calls :
    TimedOut(s) =>
      \A a \in Sockets : s \notin sends[a].frames /\ s \notin sends[a].queue

\* C12 witness: a send timed out and a later send to the same target was
\* transmitted on a socket that opened.
C12_Witness ==
  \E s \in Calls : \E t \in Calls :
    /\ s < t
    /\ TimedOut(s)
    /\ SameTarget(s, t)
    /\ sends[s].sock = "CLOSED"
    /\ sends[t].sock = "OPEN"
    /\ sends[t].frames = {t}

Pending(kind) == {i \in 1..Len(timers) : timers[i].kind = kind}

\* C16: an idle timer and a connection-timeout timer are never pending together;
\* an idle timer is pending only while the held socket is open, and a
\* connection-timeout timer only while the socket of its own attempt is held and
\* connecting (so a target switch that tears the attempt down cancels it).
C16_TimersExclusive ==
  /\ Pending("idle") = {} \/ Pending("conn") = {}
  /\ \A i \in Pending("idle") : ws # 0 /\ sends[ws].sock = "OPEN"
  /\ \A i \in Pending("conn") :
       ws = timers[i].id /\ sends[ws].sock = "CONNECTING"

\* call s ended with SENT
Successful(s) == sends[s].statuses # <<>> /\ Last(sends[s].statuses) = "SENT"

\* a step in which an idle timer expires and the teardown runs
IdleFired == idleFires' = idleFires + 1

\* an idle teardown runs although the idle timer of a successful send, started
\* less than IDLE_DURATION ago, is still pending
EarlyTeardown ==
  /\ IdleFired
  /\ \E j \in Pending("idle") :
       timers[j].remaining > 0 /\ Successful(timers[j].id)

\* C17: every send cancels the pending idle timer, at most one idle timer is
\* pending at any time, and no idle teardown runs less than IDLE_DURATION after
\* the most recent successful send.
C17_OneIdleTimer ==
  [][ /\ Len(sends') = Len(sends) + 1 =>
           \A i \in Pending("idle") :
             timers[i].id = idleTimeout =>
               \A j \in 1..Len(timers') : timers'[j] # timers[i]
      /\ Cardinality(Pending("idle")') <= 1
      /\ ~EarlyTeardown
    ]_vars

\* C17, its last part alone
C17_NoEarlyTeardown == [][~EarlyTeardown]_vars

\* call s has failed while transmitting: ERROR follows SENDING
FailedTransmit(st) ==
  Len(st) >= 2 /\ SubSeq(st, Len(st) - 1, Len(st)) = <<"SENDING", "ERROR">>

\* the step in which the transmission of call s fails
TransmitFails(s) ==
  /\ FailedTransmit(sends'[s].statuses)
  /\ s \in Calls => ~FailedTransmit(sends[s].statuses)

\* C18: a failure while transmitting gives the send exactly one ERROR and the
\* call returns; the frame is not transmitted, no socket is closed and the held
\* socket and the current target stay as they were, so that the next send to
\* that target reuses the open socket.
C18_TransmitFailureKeepsConnection ==
  [][ /\ \A s \in 1..Len(sends') :
           TransmitFails(s) =>
             /\ Cardinality({i \in 1..Len(sends'[s].statuses) :
                               sends'[s].statuses[i] = "ERROR"}) = 1
             /\ sends'[s].pc = "done"
             /\ \A a \in 1..Len(sends') :
                  s \notin sends'[a].frames /\ s \notin sends'[a].queue
             /\ \A a \in Sockets :
                  sends[a].sock # "CLOSED" => sends'[a].sock # "CLOSED"
             /\ ws' = ws
             /\ currentHost' = currentHost
             /\ currentPort' = currentPort
      /\ ( /\ \E s \in Calls : FailedTransmit(sends[s].statuses)
           /\ ValidCall
           /\ isConnected(Manager)
           /\ Last(sends').host = currentHost
           /\ Last(sends').port = currentPort ) =>
           LET n == Len(sends')
           IN /\ ws' = ws
              /\ sends'[n].sock = "NONE"
              /\ sends'[ws].sock = "OPEN"
              /\ IsPrefix(<<"CONNECTED", "SENDING">>, sends'[n].statuses)
    ]_vars

\* C18 witness: the transmission of a send failed on the open socket, and a later
\* send to the same target was transmitted on that socket.
C18_Witness ==
  \E s \in Calls : \E t \in Calls :
    /\ s < t
    /\ FailedTransmit(sends[s].statuses)
    /\ ws # 0
    /\ sends[ws].sock = "OPEN"
    /\ sends[t].statuses = <<"CONNECTED", "SENDING", "SENT">>
    /\ t \in sends[ws].frames
    /\ ws < t

\* the state disconnect() leaves: no socket and no idle timer held
Disconnected(m) == m.ws = 0 /\ m.idleTimeout = 0

\* C19: in every state, disconnect() cancels the idle timer the manager holds,
\* closes the held socket and leaves the manager Disconnected, touching nothing
\* else; applied to a Disconnected manager it changes nothing, and applied
\* twice it gives the same state as applied once.
C19_DisconnectIdempotent ==
  LET d == disconnect(Manager)
  IN /\ Disconnected(d)
     /\ idleTimeout # 0 =>
          d.timers = RemoveTimer(timers, "idle", idleTimeout)
     /\ idleTimeout = 0 => d.timers = timers
     /\ ws # 0 => d.sends = [sends EXCEPT ![ws].sock = "CLOSED"]
     /\ ws = 0 => d.sends = sends
     /\ d.currentHost = currentHost
     /\ d.currentPort = currentPort
     /\ Disconnected(Manager) => d = Manager
     /\ disconnect(d) = d

\* C19 witness: one socket has been torn down after use, and the manager holds
\* another, open, with its idle timer pending.
C19_Witness ==
  /\ \E s \in Calls : Successful(s) /\ sends[s].sock = "CLOSED"
  /\ isConnected(Manager)
  /\ idleTimeout # 0
  /\ \E i \in Pending("idle") : timers[i].id = idleTimeout

\* C24: every frame written to a socket, transmitted at once or buffered until
\* the socket opens, comes from a send to the target the socket was opened to.
C24_FramesOnOwnTarget ==
  \A a \in Sockets :
    \A f \in sends[a].frames \cup sends[a].queue : SameTarget(f, a)

\* C25: when the connection timeout of a send expires while the manager holds
\* the socket of a later send, that socket stays held and is not closed, and
\* the target stays set.
C25_StaleTimeoutSparesNewer ==
  [][ \A s \in Calls :
        (TimesOut(s) /\ ws > s) =>
          /\ ws' = ws
          /\ sends'[ws].sock = sends[ws].sock
          /\ currentHost' = currentHost
          /\ currentPort' = currentPort
    ]_vars

\* the terminal statuses among the statuses a send has emitted
Terminal(s) ==
  SelectSeq(sends[s].statuses, LAMBDA status : status \in {"SENT", "ERROR"})

\* C26: every send terminates: whatever calls have been made, a state follows
\* in which all of them have returned, whether their sockets open, never open
\* or are closed by another call; a call that has returned has emitted exactly
\* one terminal status (SENT or ERROR), and a call that has not has emitted none.
C26_EverySendTerminates ==
  /\ [](\A s \in Calls :
          Len(Terminal(s)) = IF sends[s].pc = "done" THEN 1 ELSE 0)
  /\ []<>(\A s \in Calls : sends[s].pc = "done")

\* three calls have returned: one whose socket was closed by a later call's
\* target switch and never opened, one that timed out while holding the
\* socket, and one that transmitted
C26_Witness ==
  \E r \in Calls : \E s \in Calls : \E t \in Calls :
    /\ \A c \in {r, s, t} : sends[c].pc = "done"
    /\ r < s
    /\ ~SameTarget(r, s)
    /\ sends[r].sock = "CLOSED"
    /\ sends[r].statuses = <<"CONNECTING", "ERROR">>
    /\ sends[s].statuses = <<"CONNECTING", "ERROR">>
    /\ Last(sends[t].statuses) = "SENT"

\* C26, the reason it holds at every bound: a call that has not returned is
\* waiting in waitForConnection with its own connection timer pending
C26_WaitingCallHasTimer ==
  \A s \in Calls :
    \/ sends[s].pc = "done"
    \/ /\ sends[s].pc = "waiting"
       /\ \E i \in 1..Len(timers) :
            /\ timers[i].kind = "conn"
            /\ timers[i].id = s
            /\ timers[i].remaining <= CONNECTION_TIMEOUT

\* C27: no socket is leaked: from some point on every socket ever created is
\* closed, the manager holds no socket and no target, and no timer is pending.
C27_NoSocketLeaked ==
  <>[](/\ Unclosed = {}
       /\ Disconnected(Manager)
       /\ timers = <<>>)

\* a step in which call s reaches the transmit step (it emits SENDING)
ReachesTransmit(s) ==
  /\ s \in 1..Len(sends')
  /\ "SENDING" \in {sends'[s].statuses[k] : k \in 1..Len(sends'[s].statuses)}
  /\ s \in Calls =>
       "SENDING" \notin {sends[s].statuses[k] : k \in 1..Len(sends[s].statuses)}

\* C28: whenever a send reaches the transmit step, the manager holds a socket
\* and that socket is open.
C28_TransmitOnOpenSocket ==
  [][ \A s \in 1..MaxSends :
        ReachesTransmit(s) => ws' # 0 /\ sends'[ws'].sock = "OPEN"
    ]_vars

(***************************************************************************)
(* Claims on the dispatcher                                                *)
(***************************************************************************)
\* a step in which the onMessage listener handles a message of the given type
Handles(type) == request' # NotCalled /\ request'.type = type

\* the acknowledgement of a DOM_ELEMENT_POINTED message from a page at URL u
Ack(u) ==
  LET e == getEndpointForUrl(u)
  IN [success |-> TRUE,
      route |-> IF e.route = Null THEN "default" ELSE e.route.name,
      endpoint |-> e.host \o <<":">> \o ToDigits(e.port)]

\* the listener hands the message from a page at URL u to sendElement and
\* acknowledges it in the same step, whatever has become of the send by then
\* and whatever becomes of it later
AckedOnHandOver(u) ==
  /\ Len(sends') = Len(sends) + 1
  /\ Last(sends').host = getEndpointForUrl(u).host
  /\ Last(sends').port = getEndpointForUrl(u).port
  /\ SubSeq(sends', 1, Len(sends)) = sends
  /\ response' = Ack(u)

\* C14: every DOM_ELEMENT_POINTED message is handed to sendElement and
\* acknowledged (success, the matched rule's name or "default", "host:port") in
\* the step that handles it.
C14_AckOnHandOver ==
  [][ Handles("DOM_ELEMENT_POINTED") =>
        /\ currentConfig # Undefined
        /\ AckedOnHandOver(request'.url)
    ]_vars

\* C14 for the messages handled after initialize() has assigned currentConfig and
\* elementSender
C14_AckAfterInitialize ==
  [][ (Handles("DOM_ELEMENT_POINTED") /\ elementSender = TRUE) =>
        AckedOnHandOver(request'.url)
    ]_vars

\* a step in which the listener resolves a DOM_ELEMENT_POINTED message of tab t
Resolves(t) ==
  /\ Handles("DOM_ELEMENT_POINTED")
  /\ request'.tab = t
  /\ currentConfig # Undefined

\* C15: the store has no entry for a closed tab; a resolved message of a tab sets
\* the tab's entry to the route resolved for it, the closing of a tab deletes its
\* entry, and nothing else changes an entry.  So each open tab's entry is the
\* route of its most recent resolved message.
C15_StoreTracksTabs ==
  [][ \A t \in Tabs :
        /\ t \notin tabs => activeRoutes[t] = NoEntry
        /\ t \notin tabs' => activeRoutes'[t] = NoEntry
        /\ IF Resolves(t)
           THEN /\ t \in tabs'
                /\ activeRoutes'[t] = getEndpointForUrl(request'.url).route
                /\ activeRoutes'[t] # NoEntry
           ELSE IF t \in tabs \ tabs'
           THEN activeRoutes'[t] = NoEntry
           ELSE activeRoutes'[t] = activeRoutes[t]
    ]_vars

\* C15 witness: the message just handled came from tab 1 and matched a rule, which
\* is now tab 1's entry; tab 2 has been closed and has no entry.
C15_Witness ==
  /\ request # NotCalled
  /\ request.type = "DOM_ELEMENT_POINTED"
  /\ request.tab = 1
  /\ response # Uncaught
  /\ Len(sends) = 1
  /\ tabs = {1}
  /\ activeRoutes[1] \notin {NoEntry, Null}
  /\ activeRoutes[1].mcpPort = sends[1].port
  /\ activeRoutes[2] = NoEntry

\* C20: a TEST_ROUTE or GET_ACTIVE_ROUTE query leaves the sockets, the timers,
\* the manager, the route-tracking store and the configuration as they were, and
\* TEST_ROUTE answers with what getEndpointForUrl returns for its URL.
C20_QueriesChangeNothing ==
  [][ /\ (Handles("TEST_ROUTE") \/ Handles("GET_ACTIVE_ROUTE")) =>
           /\ connVars' = connVars
           /\ activeRoutes' = activeRoutes
           /\ currentConfig' = currentConfig
           /\ elementSender' = elementSender
           /\ tabs' = tabs
      /\ (Handles("TEST_ROUTE") /\ currentConfig # Undefined) =>
           LET e == getEndpointForUrl(request'.url)
           IN /\ response'.endpoint = [host |-> e.host, port |-> e.port]
              /\ response'.matched = (e.route # Null)
              /\ e.route = Null => response'.route = Null
              /\ e.route # Null =>
                   response'.route = [name |-> e.route.name,
                                      pattern |-> e.route.pattern]
    ]_vars

\* C20 witness: a TEST_ROUTE query for a URL that a rule matches has been answered
\* while a socket is held, a timer is pending and the store has an entry.
C20_Witness ==
  /\ request # NotCalled
  /\ request.type = "TEST_ROUTE"
  /\ response # Uncaught
  /\ response.matched
  /\ ws # 0
  /\ timers # <<>>
  /\ \E t \in Tabs : activeRoutes[t] # NoEntry

\* what sendElement leaves behind when called for the page at URL u: computed
\* from the URL, the current config and the connection state alone
SendFor(u) ==
  LET e == getEndpointForUrl(u)
      n == Len(sends) + 1
      m == [Manager EXCEPT !.sends = Append(@, NewCall(Element, e.host, e.port))]
  IN sendElement(m, n, e.host, e.port)

\* C21: route tracking never feeds back into routing: the endpoint a
\* DOM_ELEMENT_POINTED message resolves to, the send it produces and its
\* acknowledgement are functions of the message's URL, the current config and
\* the connection state; the contents of the route-tracking store (left by
\* earlier messages and tab closes) have no part in them.
C21_StoreNeverFeedsBack ==
  [][ (Handles("DOM_ELEMENT_POINTED") /\ elementSender = TRUE) =>
        \E r \in {SendFor(request'.url)} :
           /\ sends' = r.sends
           /\ ws' = r.ws
           /\ currentHost' = r.currentHost
           /\ currentPort' = r.currentPort
           /\ idleTimeout' = r.idleTimeout
           /\ timers' = r.timers
           /\ response' = Ack(request'.url)
    ]_vars

\* a message of tab 1 has been resolved to the default endpoint and handed to
\* sendElement while the store held a matched rule (for tab 1 before this
\* message, for tab 2 still)
C21_Witness ==
  /\ request # NotCalled
  /\ request.type = "DOM_ELEMENT_POINTED"
  /\ request.tab = 1
  /\ response # NotCalled
  /\ response # Uncaught
  /\ response.route = "default"
  /\ Len(sends) = 1
  /\ sends[1].port = DefaultPort
  /\ activeRoutes[1] = Null
  /\ activeRoutes[2] \notin {NoEntry, Null}

\* C22: while the current config has enabled = FALSE, a DOM_ELEMENT_POINTED
\* message is not handed to sendElement: no call is made, and the socket held
\* and the timers stay as they are.
C22_DisabledDispatchesNothing ==
  [][ (/\ Handles("DOM_ELEMENT_POINTED")
       /\ currentConfig # Undefined
       /\ currentConfig.enabled = FALSE) =>
        /\ sends' = sends
        /\ ws' = ws
        /\ timers' = timers
    ]_vars

(***************************************************************************)
(* ConfigStorageService (part_000).  The stored value is read and written  *)
(* whole; every await of chrome.storage.sync is a step of its own, so      *)
(* calls in flight interleave between their reads and their write.         *)
(* Storage reads and writes succeed.                                       *)
(***************************************************************************)
\* part_000:5
CONFIG_VERSION == 3

\* the object spread {...a, ...b}
Spread(a, b) ==
  [f \in DOMAIN a \cup DOMAIN b |-> IF f \in DOMAIN b THEN b[f] ELSE a[f]]

\* part_000:15-31
migrateRoute(route) ==
  IF "mcpPort" \in DOMAIN route
  THEN route
  ELSE [id |-> route.id, name |-> route.name, pattern |-> route.pattern,
        patternType |-> route.patternType, mcpPort |-> route.port,
        enabled |-> route.enabled]

\* part_000:36-58, logger settings left out
migrateConfig(stored) ==
  IF "routes" \in DOMAIN stored
  THEN [enabled |-> IF "enabled" \in DOMAIN stored
                    THEN stored.enabled ELSE defaultConfig.enabled,
        autoRouting |-> IF "autoRouting" \in DOMAIN stored
                        THEN stored.autoRouting ELSE defaultConfig.autoRouting,
        websocket |-> IF "websocket" \in DOMAIN stored
                      THEN stored.websocket ELSE defaultConfig.websocket,
        routes |-> [i \in DOMAIN stored.routes |-> migrateRoute(stored.routes[i])]]
  ELSE [enabled |-> IF "enabled" \in DOMAIN stored
                    THEN stored.enabled ELSE defaultConfig.enabled,
        autoRouting |-> TRUE,
        websocket |-> IF "websocket" \in DOMAIN stored
                      THEN stored.websocket ELSE defaultConfig.websocket,
        routes |-> defaultConfig.routes]

\* part_000:61-72  what load() returns when its read sees the value `stored`
load(stored) ==
  IF stored = NothingStored THEN defaultConfig ELSE migrateConfig(stored)

\* part_000:80-86  what save(config) writes
save(config) == Spread(config, "_version" :> CONFIG_VERSION)

\* the rule the stored configs start with, and the rules that are added
StoredRule == RuleAt(1, <<"8">>, "port", TRUE)
AddedRules == {RuleAt(2, <<"9">>, "port", TRUE), RuleAt(3, <<"b">>, "contains", TRUE)}

\* a stored rule in the old format (host and port)
OldRule ==
  [id |-> RouteIds[1], name |-> RouteNames[1], pattern |-> <<"8">>,
   patternType |-> "port", host |-> DefaultHost, port |-> 7021, enabled |-> TRUE]

\* what the storage holds before the first call: nothing, a config of the
\* current version, one with rules in the old format, one without rules
StoredConfigs ==
  { NothingStored,
    save([defaultConfig EXCEPT !.routes = <<StoredRule>>]),
    Spread([enabled |-> TRUE, autoRouting |-> TRUE,
            websocket |-> defaultConfig.websocket, routes |-> <<OldRule>>],
           "_version" :> 2),
    [enabled |-> TRUE, websocket |-> defaultConfig.websocket] }

\* a call of one of the mutators: op names the method, arg its first argument
\* (the route, the route id or the config updates), upd the route updates of
\* updateRoute; updates and newConfig are update()'s parameter and local
NewMutator(op, arg, upd) ==
  [op |-> op, arg |-> arg, upd |-> upd,
   pc |-> IF op = "update" THEN "update.load" ELSE "load",
   updates |-> IF op = "update" THEN arg ELSE Null,
   newConfig |-> Null]

\* a step of ConfigStorageService: the background script and the
\* ElementSenderService are not involved
StoreOnly ==
  /\ UNCHANGED <<url, currentConfig, matched, endpoint, dispVars>>
  /\ UNCHANGED msgVars
  /\ UNCHANGED connVars

\* part_000:94  update(updates) is called
update(updates) ==
  /\ Len(mutators) < MaxCalls
  /\ mutators' = Append(mutators, NewMutator("update", updates, Null))
  /\ UNCHANGED storage
  /\ StoreOnly

\* part_000:104  addRoute(route) is called
addRoute(route) ==
  /\ Len(mutators) < MaxCalls
  /\ mutators' = Append(mutators, NewMutator("addRoute", route, Null))
  /\ UNCHANGED storage
  /\ StoreOnly

\* part_000:113  updateRoute(routeId, updates) is called
updateRoute(routeId, updates) ==
  /\ Len(mutators) < MaxCalls
  /\ mutators' = Append(mutators, NewMutator("updateRoute", routeId, updates))
  /\ UNCHANGED storage
  /\ StoreOnly

\* part_000:124  removeRoute(routeId) is called
removeRoute(routeId) ==
  /\ Len(mutators) < MaxCalls
  /\ mutators' = Append(mutators, NewMutator("removeRoute", routeId, Null))
  /\ UNCHANGED storage
  /\ StoreOnly

\* part_000:133  toggleRoute(routeId) is called
toggleRoute(routeId) ==
  /\ Len(mutators) < MaxCalls
  /\ mutators' = Append(mutators, NewMutator("toggleRoute", routeId, Null))
  /\ UNCHANGED storage
  /\ StoreOnly

\* part_000:106, 115-117, 126, 135-137  the rule list a mutator computes from
\* the rule list it has loaded
NewRoutes(c, routes) ==
  CASE c.op = "addRoute" -> Append(routes, c.arg)
    [] c.op = "updateRoute" ->
         [i \in DOMAIN routes |->
            IF routes[i].id = c.arg THEN Spread(routes[i], c.upd) ELSE routes[i]]
    [] c.op = "removeRoute" -> SelectSeq(routes, LAMBDA route : route.id # c.arg)
    [] c.op = "toggleRoute" ->
         [i \in DOMAIN routes |->
            IF routes[i].id = c.arg
            THEN Spread(routes[i], [enabled |-> ~routes[i].enabled])
            ELSE routes[i]]

\* part_000:105-107 (and 114-118, 125-127, 134-138)  the mutator's own load()
\* resolves; it computes the new rule list and calls update({routes})
Loaded(i) ==
  /\ i \in DOMAIN mutators
  /\ mutators[i].pc = "load"
  /\ mutators' = [mutators EXCEPT
                    ![i].updates = [routes |-> NewRoutes(mutators[i], load(storage).routes)],
                    ![i].pc = "update.load"]
  /\ UNCHANGED storage
  /\ StoreOnly

\* part_000:95-97  update()'s load() resolves; it spreads the updates over the
\* config loaded and calls save(newConfig)
UpdateLoaded(i) ==
  /\ i \in DOMAIN mutators
  /\ mutators[i].pc = "update.load"
  /\ mutators' = [mutators EXCEPT
                    ![i].newConfig = Spread(load(storage), mutators[i].updates),
                    ![i].pc = "update.save"]
  /\ UNCHANGED storage
  /\ StoreOnly

\* part_000:85, 97-98  chrome.storage.sync.set stores the config; the call returns
Saved(i) ==
  /\ i \in DOMAIN mutators
  /\ mutators[i].pc = "update.save"
  /\ storage' = save(mutators[i].newConfig)
  /\ mutators' = [mutators EXCEPT ![i].pc = "done"]
  /\ StoreOnly

\* the arguments the mutators are called with
RouteUpdates == { [name |-> "Renamed"], [id |-> RouteIds[2]] }
ConfigUpdates == { [enabled |-> FALSE] }

StorageInit ==
  /\ storage \in StoredConfigs
  /\ mutators = <<>>
  /\ url = <<>>
  /\ currentConfig = defaultConfig
  /\ matched = NotCalled
  /\ endpoint = NotCalled
  /\ ScriptLoaded
  /\ ConnInit

StorageNext ==
  \/ \E updates \in ConfigUpdates : update(updates)
  \/ \E route \in AddedRules : addRoute(route)
  \/ \E updates \in RouteUpdates : updateRoute(StoredRule.id, updates)
  \/ removeRoute(StoredRule.id)
  \/ toggleRoute(StoredRule.id)
  \/ \E i \in 1..MaxCalls : Loaded(i)
  \/ \E i \in 1..MaxCalls : UpdateLoaded(i)
  \/ \E i \in 1..MaxCalls : Saved(i)

SpecStorage == StorageInit /\ [][StorageNext]_vars

(***************************************************************************)
(* Claims on the stored config                                             *)
(***************************************************************************)
\* the rule identifiers of a rule list, by position
Ids(routes) == [i \in DOMAIN routes |-> routes[i].id]

\* the identifiers are pairwise distinct
DistinctIds(routes) ==
  \A i, j \in DOMAIN routes : routes[i].id = routes[j].id => i = j

\* a step in which call i of the given method computes its new rule list
Computes(i, op) ==
  /\ i \in DOMAIN mutators
  /\ mutators[i].op = op
  /\ mutators[i].pc = "load"
  /\ mutators'[i].pc = "update.load"

\* C23: the rule identifiers in the stored rule list are pairwise distinct
\* after every operation, and updateRoute and toggleRoute leave every rule of
\* the list they loaded with its identifier at its position.
C23_IdentifiersUniqueAndStable ==
  [][ /\ DistinctIds(load(storage').routes)
      /\ \A i \in 1..MaxCalls :
           Computes(i, "updateRoute") \/ Computes(i, "toggleRoute") =>
             Ids(mutators'[i].updates.routes) = Ids(load(storage).routes)
    ]_vars

\* C23 for toggleRoute and removeRoute: toggleRoute keeps every identifier at
\* its position, removeRoute takes identifiers away and keeps the others in order
C23_ToggleAndRemoveKeepIds ==
  [][ \A i \in 1..MaxCalls :
        /\ Computes(i, "toggleRoute") =>
             Ids(mutators'[i].updates.routes) = Ids(load(storage).routes)
        /\ Computes(i, "removeRoute") =>
             Ids(mutators'[i].updates.routes) =
               SelectSeq(Ids(load(storage).routes), LAMBDA id : id # mutators[i].arg)
    ]_vars

\* C23, its first half alone: the stored rule identifiers are pairwise distinct
C23_StoredIdsDistinct == DistinctIds(load(storage).routes)

\* C29: the listener handles a message (dispatch or query) only once
\* initialize() has assigned the loaded configuration and the service, and it
\* resolves a dispatch message against the configuration current at that step.
C29_HandledOnlyAfterLoad ==
  [][ request' # NotCalled =>
        /\ currentConfig # Undefined
        /\ elementSender = TRUE
        /\ request'.type = "DOM_ELEMENT_POINTED" => response' = Ack(request'.url)
    ]_vars

\* C29 for the messages handled after initialize() has finished: each is
\* resolved against the configuration assigned last, by initialize() or by
\* the onChange callback
C29_NewestConfigAfterLoad ==
  [][ (Handles("DOM_ELEMENT_POINTED") /\ elementSender = TRUE) =>
        /\ currentConfig' = currentConfig
        /\ response' = Ack(request'.url)
    ]_vars

\* every call made so far has returned
AllReturned == \A i \in DOMAIN mutators : mutators[i].pc = "done"

\* the number of calls of the given method
CallsOf(op) == Cardinality({i \in DOMAIN mutators : mutators[i].op = op})

\* the change of call c shows in the rule list and the config: an added rule is
\* in the list, the removed identifier is not, the stored rule carries the
\* properties it was given and the enabled state its toggles leave it with,
\* and the config carries the fields update() was given
Reflects(c, config) ==
  LET routes == config.routes
  IN CASE c.op = "addRoute" -> \E k \in DOMAIN routes : routes[k] = c.arg
       [] c.op = "removeRoute" -> \A k \in DOMAIN routes : routes[k].id # c.arg
       [] c.op = "updateRoute" ->
            \A k \in DOMAIN routes :
              routes[k].id = c.arg =>
                \A f \in DOMAIN c.upd : routes[k][f] = c.upd[f]
       [] c.op = "toggleRoute" ->
            \A k \in DOMAIN routes :
              routes[k].id = c.arg =>
                routes[k].enabled = (CallsOf("toggleRoute") % 2 = 0)
       [] c.op = "update" -> \A f \in DOMAIN c.arg : config[f] = c.arg[f]

\* C30: the mutators are free of lost updates: once the calls made have all
\* returned, the stored config reflects the change of each of them, however
\* their loads and saves interleaved.
C30_NoLostUpdate ==
  AllReturned => \A i \in DOMAIN mutators : Reflects(mutators[i], load(storage))

====
